---- MODULE Spec2Model ----
(***************************************************************************)
(* Model of DRSpy/plugins/digitizer_reader.py: the RawDataContainer, the   *)
(* three in-place corrections of Preprocessor, the DigitizerEvent record   *)
(* and DigitizerEventData.create_events_dict / create_from_file.           *)
(*                                                                         *)
(* Numbers.  Samples are floats in the source; the model computes them in  *)
(* exact rational arithmetic, a sample being [num, den] in lowest terms    *)
(* (den = 0 is numpy's nan).  A timestamp t is kept as [hi, lo] with       *)
(* t = hi * increment + lo and 0 <= lo < increment, i.e. the integer t     *)
(* written in base 2^30, so that sums of several clock cycles stay within  *)
(* the model checker's integers.  The timestamp array is taken to be       *)
(* 64 bits wide (no overflow within the bounds).                           *)
(***************************************************************************)
EXTENDS Integers, Sequences, FiniteSets, TLC

VARIABLES file_content, heap, raw_data, preprocessor, preprocessed_data,
          calls, pc, error, returned

vars == <<file_content, heap, raw_data, preprocessor, preprocessed_data,
          calls, pc, error, returned>>

(* ------------------------------ bounds --------------------------------- *)

MaxChannels == 2

MaxEvents == 2

MaxTs == 3

MaxTsDirect == 4

MaxPasses == 2

(* ------------------------- program constants --------------------------- *)

increment == 2^30

BaselineWindow == 50

VoltsDivisor == 4096

(* --------------------------- exact numbers ----------------------------- *)

Abs(n) == IF n < 0 THEN -n ELSE n

RECURSIVE GCD(_, _)
GCD(a, b) == IF b = 0 THEN a ELSE GCD(b, a % b)

Rat(n, d) ==
  IF d = 0 THEN [num |-> 0, den |-> 0]
  ELSE LET g == GCD(Abs(n), Abs(d))
           s == IF d < 0 THEN -1 ELSE 1
       IN [num |-> s * (n \div g), den |-> s * (d \div g)]

NaN == [num |-> 0, den |-> 0]

IsNaN(x) == x.den = 0

Count(c) == [num |-> c, den |-> 1]

RatSub(a, b) ==
  IF IsNaN(a) \/ IsNaN(b) THEN NaN
  ELSE Rat(a.num * b.den - b.num * a.den, a.den * b.den)

RatDivInt(a, k) == IF IsNaN(a) THEN NaN ELSE Rat(a.num, a.den * k)

RatMulInt(a, k) == IF IsNaN(a) THEN NaN ELSE Rat(a.num * k, a.den)

RatLe(a, b) == a.num * b.den <= b.num * a.den

RatAdd(a, b) ==
  IF IsNaN(a) \/ IsNaN(b) THEN NaN
  ELSE Rat(a.num * b.den + b.num * a.den, a.den * b.den)

\* sum of xs[lo..hi], added pairwise
RECURSIVE SumRange(_, _, _)
SumRange(xs, lo, hi) ==
  IF lo > hi THEN Count(0)
  ELSE IF lo = hi THEN xs[lo]
  ELSE LET mid == (lo + hi) \div 2
       IN RatAdd(SumRange(xs, lo, mid), SumRange(xs, mid + 1, hi))

SumRat(xs) == SumRange(xs, 1, Len(xs))

(* --------------------------- timestamps -------------------------------- *)

RawTs(v) == [hi |-> 0, lo |-> v]

TsGt(a, b) == a.hi > b.hi \/ (a.hi = b.hi /\ a.lo > b.lo)

\* t + increment * m
PlusIncrements(t, m) == [hi |-> t.hi + m, lo |-> t.lo]

(* ------------------------------ inputs --------------------------------- *)

ChannelIds == 0 .. (MaxChannels - 1)

\* list(set(channels)): distinct identifiers; a CPython set of small
\* non-negative integers iterates in ascending order
ChannelLists ==
  UNION { { c \in [1..n -> ChannelIds] :
              \A i, j \in 1..n : i < j => c[i] < c[j] } : n \in 0..MaxChannels }

WaveLens == {0, 3, 50, 60}

\* <<a, b, p>>: the first p samples read a counts, the rest b counts
Shapes == << <<1000, 4096, 50>>, <<4096, 1000, 20>>, <<1000, 0, 55>> >>

Wave(L, sh) == [s \in 1..L |-> Count(IF s <= sh[3] THEN sh[1] ELSE sh[2])]

\* np.array(self.get_waveforms()) is one rectangular array: every channel
\* holds n waveforms of L samples; the samples are floats holding counts
FileWaveforms(C, n, L, seed) ==
  [c \in 1..C |-> [j \in 1..n |-> Wave(L, Shapes[((c + j + seed) % Len(Shapes)) + 1])]]

TsValues == {0, 5}

TsValuesDirect == {0, 1, 2, 3, 5, 6, increment - 1}

TsSeqs(values, maxlen) ==
  UNION { [1..n -> {RawTs(v) : v \in values}] : n \in 0..maxlen }

(* ------------------------- RawDataContainer ---------------------------- *)

RawDataContainer(fc) ==
  [channels |-> fc.channels, waveforms |-> fc.waveforms, timestamps |-> fc.timestamps]

(* --------------------------- Preprocessor ------------------------------ *)

Mean(xs) == IF Len(xs) = 0 THEN NaN ELSE RatDivInt(SumRat(xs), Len(xs))

FirstSamples(w, k) == SubSeq(w, 1, IF Len(w) < k THEN Len(w) ELSE k)

baselineWhole(w) == Mean(w)

baseline(w) == Mean(FirstSamples(w, BaselineWindow))

\* one row of waveforms[i] -= baselines (the baseline broadcast over the row)
SubtractFromRow(w, b) == [s \in 1..Len(w) |-> RatSub(w[s], b)]

SubtractBaseline(waveforms) ==
  [i \in 1..Len(waveforms) |->
     [j \in 1..Len(waveforms[i]) |->
        SubtractFromRow(waveforms[i][j], baseline(waveforms[i][j]))]]

TurnIntoVolts(waveforms) ==
  [i \in 1..Len(waveforms) |->
     [j \in 1..Len(waveforms[i]) |->
        [s \in 1..Len(waveforms[i][j]) |->
           RatDivInt(waveforms[i][j][s], VoltsDivisor)]]]

reset_indices_unshifted(ts) ==
  SelectSeq([j \in 1..Len(ts) |-> j],
            LAMBDA j : j < Len(ts) /\ TsGt(ts[j], ts[j + 1]))

\* 1-based positions j with ts[j-1] > ts[j]
reset_indices(ts) ==
  SelectSeq([j \in 1..Len(ts) |-> j],
            LAMBDA j : j > 1 /\ TsGt(ts[j - 1], ts[j]))

AddendOnce(i) == 1

AddendZeroBased(i) == i

\* number of increments the loop adds at enumerate index i (0-based)
Addend(i) == i + 1

RECURSIVE ApplyResets(_, _, _)
ApplyResets(ts, resets, i) ==
  IF i >= Len(resets) THEN ts
  ELSE ApplyResets(
         [p \in 1..Len(ts) |->
            IF p >= resets[i + 1] THEN PlusIncrements(ts[p], Addend(i)) ELSE ts[p]],
         resets, i + 1)

CorrectTimestamps(ts) == ApplyResets(ts, reset_indices(ts), 0)

preprocess_chain_swapped == <<"turn_into_volts", "subtract_baseline", "correct_timestamps">>

preprocess_chain == <<"subtract_baseline", "turn_into_volts", "correct_timestamps">>

ChainAt(name) ==
  /\ pc = "preprocessing"
  /\ Len(calls) < Len(preprocess_chain)
  /\ preprocess_chain[Len(calls) + 1] = name

(* -------------------------- DigitizerEvent ----------------------------- *)

RECURSIVE MaxRange(_, _, _)
MaxRange(w, lo, hi) ==
  IF lo = hi THEN w[lo]
  ELSE LET mid == (lo + hi) \div 2
           a == MaxRange(w, lo, mid)
           b == MaxRange(w, mid + 1, hi)
       IN IF RatLe(b, a) THEN a ELSE b

RECURSIVE MinRange(_, _, _)
MinRange(w, lo, hi) ==
  IF lo = hi THEN w[lo]
  ELSE LET mid == (lo + hi) \div 2
           a == MinRange(w, lo, mid)
           b == MinRange(w, mid + 1, hi)
       IN IF RatLe(a, b) THEN a ELSE b

amax(w) == MaxRange(w, 1, Len(w))

\* np.amin of a non-empty waveform
amin(w) == MinRange(w, 1, Len(w))

DigitizerEvent(waveform, timestamp) ==
  [waveform |-> waveform, timestamp |-> timestamp,
   amplitude |-> RatMulInt(amin(waveform), -1)]

(* ------------------------ DigitizerEventData --------------------------- *)

cycle(xs) == [it |-> xs, saved |-> <<>>, replay |-> <<>>]

cycle_next(c) ==
  IF Len(c.it) > 0
  THEN [ok |-> TRUE, value |-> <<Head(c.it)>>,
        iter |-> [it |-> Tail(c.it), saved |-> Append(c.saved, Head(c.it)),
                  replay |-> <<>>]]
  ELSE IF Len(c.saved) = 0
  THEN [ok |-> FALSE, value |-> <<>>, iter |-> c]
  ELSE LET r == IF Len(c.replay) = 0 THEN c.saved ELSE c.replay
       IN [ok |-> TRUE, value |-> <<Head(r)>>,
           iter |-> [it |-> <<>>, saved |-> c.saved, replay |-> Tail(r)]]

RECURSIVE channel_events_loop(_, _, _)
channel_events_loop(waveforms, j, st) ==
  IF st.error # "" \/ j > Len(waveforms) THEN st
  ELSE LET r == cycle_next(st.cursor)
       IN IF ~r.ok
          THEN [st EXCEPT !.error = "StopIteration"]
          ELSE IF Len(waveforms[j]) = 0
          THEN [st EXCEPT !.error = "ValueError", !.cursor = r.iter]
          ELSE channel_events_loop(waveforms, j + 1,
                 [cursor |-> r.iter,
                  events |-> Append(st.events, DigitizerEvent(waveforms[j], r.value[1])),
                  error |-> ""])

channel_events_zip(waveforms, cursor) ==
  channel_events_loop(
    SubSeq(waveforms, 1, IF Len(cursor.it) < Len(waveforms) THEN Len(cursor.it)
                         ELSE Len(waveforms)),
    1, [cursor |-> cursor, events |-> <<>>, error |-> ""])

\* the list comprehension of one channel
channel_events(waveforms, cursor) ==
  channel_events_loop(waveforms, 1, [cursor |-> cursor, events |-> <<>>, error |-> ""])

cursor_reset_per_channel(data, after) == cycle(data.timestamps)

\* the iterator the next channel's comprehension draws from
cursor_for_next_channel(data, after) == after

RECURSIVE events_dict_loop(_, _, _)
events_dict_loop(data, k, st) ==
  IF st.error # "" \/ k > Len(data.channels) \/ k > Len(data.waveforms) THEN st
  ELSE LET r == channel_events(data.waveforms[k], st.cursor)
       IN IF r.error # ""
          THEN [st EXCEPT !.error = r.error]
          ELSE events_dict_loop(data, k + 1,
                 [cursor |-> cursor_for_next_channel(data, r.cursor),
                  dict |-> (data.channels[k] :> r.events) @@ st.dict,
                  error |-> ""])

CreateEventsDict(data) ==
  events_dict_loop(data, 1, [cursor |-> cycle(data.timestamps), dict |-> <<>>, error |-> ""])

(* ------------------------------ actions -------------------------------- *)

Init ==
  /\ \E chs \in ChannelLists, n \in 0..MaxEvents, L \in WaveLens,
        seed \in 0..(Len(Shapes) - 1), ts \in TsSeqs(TsValues, MaxTs) :
       file_content = [channels |-> chs,
                       waveforms |-> FileWaveforms(Len(chs), n, L, seed),
                       timestamps |-> ts]
  /\ heap = <<>>
  /\ raw_data = 0
  /\ preprocessor = 0
  /\ preprocessed_data = 0
  /\ calls = <<>>
  /\ pc = "start"
  /\ error = ""
  /\ returned = <<>>

\* raw_data = RawDataContainer(file)
RawDataContainer_init ==
  /\ pc = "start"
  /\ heap' = Append(heap, RawDataContainer(file_content))
  /\ raw_data' = Len(heap) + 1
  /\ pc' = "loaded"
  /\ UNCHANGED <<file_content, preprocessor, preprocessed_data, calls, error, returned>>

\* Preprocessor.preprocess: preprocessor = cls(RawDataContainer)
preprocess ==
  /\ pc = "loaded"
  /\ preprocessor' = raw_data
  /\ pc' = "preprocessing"
  /\ UNCHANGED <<file_content, heap, raw_data, preprocessed_data, calls, error, returned>>

subtract_baseline ==
  /\ ChainAt("subtract_baseline")
  /\ heap' = [heap EXCEPT ![preprocessor].waveforms = SubtractBaseline(@)]
  /\ calls' = Append(calls, "subtract_baseline")
  /\ UNCHANGED <<file_content, raw_data, preprocessor, preprocessed_data, pc, error, returned>>

turn_into_volts ==
  /\ ChainAt("turn_into_volts")
  /\ heap' = [heap EXCEPT ![preprocessor].waveforms = TurnIntoVolts(@)]
  /\ calls' = Append(calls, "turn_into_volts")
  /\ UNCHANGED <<file_content, raw_data, preprocessor, preprocessed_data, pc, error, returned>>

correct_timestamps ==
  /\ ChainAt("correct_timestamps")
  /\ heap' = [heap EXCEPT ![preprocessor].timestamps = CorrectTimestamps(@)]
  /\ calls' = Append(calls, "correct_timestamps")
  /\ UNCHANGED <<file_content, raw_data, preprocessor, preprocessed_data, pc, error, returned>>

\* return self.RawDataContainer / return preprocessor.RawDataContainer
preprocess_return ==
  /\ pc = "preprocessing"
  /\ Len(calls) = Len(preprocess_chain)
  /\ preprocessed_data' = preprocessor
  /\ pc' = "preprocessed"
  /\ UNCHANGED <<file_content, heap, raw_data, preprocessor, calls, error, returned>>

\* cls(preprocessed_data).create_events_dict(), the value create_from_file returns
create_events_dict ==
  /\ pc = "preprocessed"
  /\ LET r == CreateEventsDict(heap[preprocessed_data])
     IN IF r.error = ""
        THEN /\ returned' = r.dict
             /\ pc' = "done"
             /\ error' = ""
        ELSE /\ returned' = returned
             /\ pc' = "failed"
             /\ error' = r.error
  /\ UNCHANGED <<file_content, heap, raw_data, preprocessor, preprocessed_data, calls>>

Next ==
  \/ RawDataContainer_init
  \/ preprocess
  \/ subtract_baseline
  \/ turn_into_volts
  \/ correct_timestamps
  \/ preprocess_return
  \/ create_events_dict

Spec == Init /\ [][Next]_vars

(* correct_timestamps called directly on a Preprocessor, any number of times *)

InitDirect ==
  /\ \E ts \in TsSeqs(TsValuesDirect, MaxTsDirect) :
       file_content = [channels |-> <<>>, waveforms |-> <<>>, timestamps |-> ts]
  /\ heap = <<RawDataContainer(file_content)>>
  /\ raw_data = 1
  /\ preprocessor = 1
  /\ preprocessed_data = 0
  /\ calls = <<>>
  /\ pc = "direct"
  /\ error = ""
  /\ returned = <<>>

correct_timestamps_direct ==
  /\ pc = "direct"
  /\ Len(calls) < MaxPasses
  /\ heap' = [heap EXCEPT ![preprocessor].timestamps = CorrectTimestamps(@)]
  /\ calls' = Append(calls, "correct_timestamps")
  /\ UNCHANGED <<file_content, raw_data, preprocessor, preprocessed_data, pc, error, returned>>

NextDirect == correct_timestamps_direct

SpecDirect == InitDirect /\ [][NextDirect]_vars

(* ------------------------------ claims --------------------------------- *)

Finished == pc \in {"preprocessed", "done", "failed"}

RECURSIVE EventsBefore(_)
EventsBefore(k) ==
  IF k <= 1 THEN 0 ELSE EventsBefore(k - 1) + Len(file_content.waveforms[k - 1])

\* C1: the n-th event constructed (channels in container order, waveforms in
\* capture order, n counted from 0 and never reset between channels) carries
\* timestamps[n mod T] of the corrected timestamp array, T >= 1.
C1_SharedCyclicCursor ==
  pc = "done" =>
    LET d == heap[preprocessed_data]
        T == Len(d.timestamps)
    IN \A k \in 1..Len(d.channels) :
         \A i \in 1..Len(returned[d.channels[k]]) :
           /\ T >= 1
           /\ returned[d.channels[k]][i].timestamp
                = d.timestamps[((EventsBefore(k) + i - 1) % T) + 1]

C1_Witness ==
  /\ pc = "done"
  /\ Len(file_content.channels) = 2
  /\ Len(file_content.waveforms[1]) = 2
  /\ Len(heap[preprocessed_data].timestamps) = 3
  /\ LET d == heap[preprocessed_data]
     IN /\ d.timestamps[1] # d.timestamps[2]
        /\ d.timestamps[1] # d.timestamps[3]
        /\ returned[d.channels[2]][1].timestamp = d.timestamps[3]
        /\ returned[d.channels[2]][2].timestamp = d.timestamps[1]

\* C2: output[c] has one event per waveform captured on c, the i-th event
\* holding the i-th (preprocessed) waveform of c, whatever the number of
\* timestamps.
C2_CountAndOrderPreserved ==
  pc = "done" =>
    LET d == heap[preprocessed_data]
    IN /\ DOMAIN returned = {d.channels[k] : k \in 1..Len(d.channels)}
       /\ \A k \in 1..Len(d.channels) :
            /\ Len(returned[d.channels[k]]) = Len(file_content.waveforms[k])
            /\ \A i \in 1..Len(file_content.waveforms[k]) :
                 returned[d.channels[k]][i].waveform = d.waveforms[k][i]

C2_Witness ==
  /\ pc = "done"
  /\ Len(file_content.timestamps) = 1
  /\ Len(file_content.channels) = 2
  /\ Len(file_content.waveforms[2]) = 2
  /\ Len(returned[file_content.channels[2]]) = 2
  /\ file_content.waveforms[2][1] # file_content.waveforms[2][2]

\* C3: after correct_timestamps the sequence is non-decreasing at every pair
\* of consecutive positions, for any raw 30-bit input.
C3_NonDecreasing ==
  (pc = "direct" /\ Len(calls) = 1) =>
    LET ts == heap[preprocessor].timestamps
    IN \A p \in 1..(Len(ts) - 1) : ~TsGt(ts[p], ts[p + 1])

RawResetAt(j) ==
  /\ j > 1
  /\ j <= Len(file_content.timestamps)
  /\ TsGt(file_content.timestamps[j - 1], file_content.timestamps[j])

RawResetsUpTo(p) == Cardinality({j \in 2..p : RawResetAt(j)})

C3_Witness ==
  /\ pc = "direct"
  /\ Len(calls) = 1
  /\ RawResetsUpTo(Len(file_content.timestamps)) >= 2
  /\ file_content.timestamps[1].lo = increment - 1

\* C4: a timestamp lying at or after the second reset (and before a third)
\* is raised by 2 * 2^30 in total, as in [3,1,0,5] -> [3, 1+2^30, 0+2*2^30,
\* 5+2*2^30].
C4_SecondResetAddsTwoCycles ==
  (pc = "direct" /\ Len(calls) = 1) =>
    \A p \in 1..Len(file_content.timestamps) :
      RawResetsUpTo(p) = 2 =>
        heap[preprocessor].timestamps[p] = PlusIncrements(file_content.timestamps[p], 2)

C6_ThreeCorrectionsInOrder ==
  Finished =>
    /\ calls = <<"subtract_baseline", "turn_into_volts", "correct_timestamps">>
    /\ preprocessed_data = raw_data
    /\ Len(heap) = 1
    /\ heap[raw_data].channels = file_content.channels

C6_Witness ==
  /\ pc = "preprocessed"
  /\ Len(file_content.channels) = 2
  /\ heap[preprocessed_data].waveforms # file_content.waveforms
  /\ heap[preprocessed_data].timestamps # file_content.timestamps

RECURSIVE CountsSum(_, _, _)
CountsSum(w, lo, hi) ==
  IF lo > hi THEN 0
  ELSE IF lo = hi THEN w[lo].num
  ELSE CountsSum(w, lo, (lo + hi) \div 2) + CountsSum(w, ((lo + hi) \div 2) + 1, hi)

\* stored[s] = (raw[s] - sum50 / 50) / 4096 at every sample position s
BaselinedVolts(stored, raw, sum50) ==
  /\ Len(stored) = Len(raw)
  /\ \A s \in 1..Len(raw) : stored[s] = Rat(50 * raw[s].num - sum50, 50 * 4096)

\* C7: after preprocess every sample of a waveform of at least 50 samples is
\* (raw[s] - mean(raw[0..49])) / 4096 exactly.
C7_BaselineThenVolts ==
  Finished =>
    \A k \in 1..Len(file_content.waveforms) :
      \A j \in 1..Len(file_content.waveforms[k]) :
        LET raw == file_content.waveforms[k][j]
        IN Len(raw) >= 50 =>
             BaselinedVolts(heap[raw_data].waveforms[k][j], raw, CountsSum(raw, 1, 50))

C7_Witness ==
  /\ pc = "preprocessed"
  /\ \E k \in 1..Len(file_content.waveforms) :
       \E j \in 1..Len(file_content.waveforms[k]) :
         LET raw == file_content.waveforms[k][j]
         IN /\ Len(raw) = 60
            /\ CountsSum(raw, 1, 50) = 50 * 1000
            /\ raw[56].num = 4096
            /\ heap[raw_data].waveforms[k][j][56] = [num |-> 387, den |-> 512]

\* C8: every returned event has amplitude = -min(waveform) over its own
\* waveform, and amplitude >= 0 whenever that minimum is <= 0.
C8_AmplitudeIsNegatedMinimum ==
  pc = "done" =>
    \A ch \in DOMAIN returned :
      \A i \in 1..Len(returned[ch]) :
        LET e == returned[ch][i]
            lowest == [num |-> -e.amplitude.num, den |-> e.amplitude.den]
        IN /\ \E s \in 1..Len(e.waveform) : e.waveform[s] = lowest
           /\ \A s \in 1..Len(e.waveform) : RatLe(lowest, e.waveform[s])
           /\ (\E s \in 1..Len(e.waveform) : e.waveform[s].num <= 0)
                => e.amplitude.num >= 0

C8_Witness ==
  /\ pc = "done"
  /\ \E ch \in DOMAIN returned :
       \E i \in 1..Len(returned[ch]) :
         /\ returned[ch][i].amplitude.num > 0
         /\ \E s \in 1..Len(returned[ch][i].waveform) :
              returned[ch][i].waveform[s].num > 0

HasShortWaveform ==
  \E k \in 1..Len(file_content.waveforms) :
    \E j \in 1..Len(file_content.waveforms[k]) :
      Len(file_content.waveforms[k][j]) < 50

\* C9: when some waveform is shorter than the 50-sample baseline window (or
\* empty) the load fails and returns no mapping.
C9_ShortWaveformFailsLoad ==
  (pc \in {"done", "failed"} /\ HasShortWaveform) =>
    (pc = "failed" /\ error # "" /\ returned = <<>>)

\* C10: a pass of correct_timestamps over the output of an earlier pass
\* changes no timestamp.
C10_SecondPassChangesNothing ==
  [][(pc = "direct" /\ Len(calls) >= 1)
       => heap'[preprocessor].timestamps = heap[preprocessor].timestamps]_vars

C10_Witness ==
  /\ pc = "direct"
  /\ Len(calls) = 2
  /\ RawResetAt(2)
  /\ RawResetAt(4)
  /\ heap[preprocessor].timestamps # file_content.timestamps

====
